---- MODULE Spec2Model ----
(***************************************************************************)
(* AlzEyePredict: the prediction page (AlzEyePredictPage) and the server   *)
(* flow interpretAlzheimerRiskFlow.                                        *)
(*                                                                         *)
(* Strings of the program are sequences of one-character strings, so that  *)
(* toLowerCase is a computation on characters.  A nullable value of the    *)
(* program is a sequence of length 0 (null) or 1 (the value).              *)
(***************************************************************************)
EXTENDS Integers, Sequences, FiniteSets, TLC

\* ------------------------------------------------------------------ bounds
\* Length of the classifier outputs the reducer is exercised on.
MaxLen == 3
\* Probabilities are the multiples k/MaxProb of 1, k in 0..MaxProb.
MaxProb == 2
\* Length of the classifier outputs the page receives.
PageMaxLen == 1
\* decimal places of a score drawn for the percentage
ScoreDecimals == 3

\* ---------------------------------------------------------------- nullable
Null == <<>>
Some(v) == <<v>>
IsNull(o) == Len(o) = 0
Val(o) == o[1]

\* ----------------------------------------------------------------- strings
UpperChars == << "A","B","C","D","E","F","G","H","I","J","K","L","M",
                 "N","O","P","Q","R","S","T","U","V","W","X","Y","Z" >>
LowerChars == << "a","b","c","d","e","f","g","h","i","j","k","l","m",
                 "n","o","p","q","r","s","t","u","v","w","x","y","z" >>

\* The characters labels are written with.
Chars == {UpperChars[i] : i \in 1..Len(UpperChars)}
           \cup {LowerChars[i] : i \in 1..Len(LowerChars)}
           \cup {" ", "1"}

\* The lower-case form of each character: of an upper-case letter the letter
\* at the same place of the lower-case alphabet, of any other character itself.
LowerOf ==
  [c \in Chars |->
     IF \E i \in 1..Len(UpperChars) : UpperChars[i] = c
       THEN LowerChars[CHOOSE i \in 1..Len(UpperChars) : UpperChars[i] = c]
       ELSE c]

LowerCharIdentity(c) == c

LowerChar(c) == LowerOf[c]

\* String.prototype.toLowerCase on the characters of s.
toLowerCase(s) == [i \in 1..Len(s) |-> LowerChar(s[i])]

\* The two literals the code compares lower-cased labels with.
LitNormal == << "n","o","r","m","a","l" >>
LitGlaucoma == << "g","l","a","u","c","o","m","a" >>

\* Labels a classifier may report.
Glaucoma == << "G","l","a","u","c","o","m","a" >>
glaucomaLc == << "g","l","a","u","c","o","m","a" >>
Normal == << "N","o","r","m","a","l" >>
NORMAL == << "N","O","R","M","A","L" >>
Cataract == << "C","a","t","a","r","a","c","t" >>
Drusen == << "D","r","u","s","e","n" >>

ClassNames == {Glaucoma, glaucomaLc, Normal, NORMAL, Cataract, Drusen}
PageClassNames == {Glaucoma, Normal, Cataract}

Prob == 0..MaxProb

\* PredictionClass { className, probability }
PredictionClass(names) == [className : names, probability : Prob]

RECURSIVE SeqsUpTo(_, _)
SeqsUpTo(S, n) ==
  IF n = 0 THEN {<<>>}
  ELSE LET shorter == SeqsUpTo(S, n - 1)
       IN shorter \cup {Append(s, x) : s \in {t \in shorter : Len(t) = n - 1}, x \in S}

\* ------------------------------------------------------------ the reducer
\* predictions.sort((a, b) => b.probability - a.probability): a stable sort,
\* descending by probability.  Insert x after every element that does not
\* compare after it.
RECURSIVE InsertDesc(_, _)
InsertDesc(sorted, x) ==
  IF sorted = <<>> THEN <<x>>
  ELSE IF Head(sorted).probability >= x.probability
         THEN <<Head(sorted)>> \o InsertDesc(Tail(sorted), x)
         ELSE <<x>> \o sorted

RECURSIVE SortDescUnstable(_)
SortDescUnstable(ps) ==
  IF ps = <<>> THEN <<>>
  ELSE LET rest == SortDescUnstable(Tail(ps))
           x == Head(ps)
           before == SelectSeq(rest, LAMBDA y : y.probability >= x.probability)
           after == SelectSeq(rest, LAMBDA y : y.probability < x.probability)
       IN before \o <<x>> \o after

SortDescMissing(ps) == ps

RECURSIVE SortDesc(_)
SortDesc(ps) ==
  IF ps = <<>> THEN <<>>
  ELSE LET n == Len(ps)
       IN InsertDesc(SortDesc(SubSeq(ps, 1, n - 1)), ps[n])

\* predictions.find(p => p.className.toLowerCase() === lit): the first such
\* entry, or undefined (Null).
FindLower(ps, lit) ==
  LET hits == {i \in 1..Len(ps) : toLowerCase(ps[i].className) = lit}
  IN IF hits = {} THEN Null
     ELSE Some(ps[CHOOSE i \in hits : \A j \in hits : i <= j])

\* entry?.probability ?? 0
ProbOrZero(entry) == IF IsNull(entry) THEN 0 ELSE Val(entry).probability

Viz(c, s) == [className |-> c, score |-> s]
NoViz == Viz(Null, Null)

ReducerBranchNoThird(predictions) ==
  LET normalEntryViz == FindLower(predictions, LitNormal)
      glaucomaEntryViz == FindLower(predictions, LitGlaucoma)
      normalProbViz == ProbOrZero(normalEntryViz)
      glaucomaProbViz == ProbOrZero(glaucomaEntryViz)
  IN IF glaucomaProbViz > normalProbViz THEN 1
     ELSE IF normalProbViz >= glaucomaProbViz /\ ~IsNull(normalEntryViz) THEN 2
     ELSE 4

ReducerBranchTieToGlaucoma(predictions) ==
  LET normalEntryViz == FindLower(predictions, LitNormal)
      glaucomaEntryViz == FindLower(predictions, LitGlaucoma)
      normalProbViz == ProbOrZero(normalEntryViz)
      glaucomaProbViz == ProbOrZero(glaucomaEntryViz)
  IN IF glaucomaProbViz >= normalProbViz /\ ~IsNull(glaucomaEntryViz) THEN 1
     ELSE IF normalProbViz >= glaucomaProbViz /\ ~IsNull(normalEntryViz) THEN 2
     ELSE IF ~IsNull(glaucomaEntryViz) /\ IsNull(normalEntryViz) THEN 3
     ELSE 4

ReducerBranchNormalNeedsGlaucoma(predictions) ==
  LET normalEntryViz == FindLower(predictions, LitNormal)
      glaucomaEntryViz == FindLower(predictions, LitGlaucoma)
      normalProbViz == ProbOrZero(normalEntryViz)
      glaucomaProbViz == ProbOrZero(glaucomaEntryViz)
  IN IF glaucomaProbViz > normalProbViz THEN 1
     ELSE IF normalProbViz >= glaucomaProbViz /\ ~IsNull(normalEntryViz)
             /\ ~IsNull(glaucomaEntryViz) THEN 2
     ELSE IF ~IsNull(glaucomaEntryViz) /\ IsNull(normalEntryViz) THEN 3
     ELSE 4

\* Which of the four branches of the if-chain is taken on sorted output.
ReducerBranch(predictions) ==
  LET normalEntryViz == FindLower(predictions, LitNormal)
      glaucomaEntryViz == FindLower(predictions, LitGlaucoma)
      normalProbViz == ProbOrZero(normalEntryViz)
      glaucomaProbViz == ProbOrZero(glaucomaEntryViz)
  IN IF glaucomaProbViz > normalProbViz THEN 1
     ELSE IF normalProbViz >= glaucomaProbViz /\ ~IsNull(normalEntryViz) THEN 2
     ELSE IF ~IsNull(glaucomaEntryViz) /\ IsNull(normalEntryViz) THEN 3
     ELSE 4

ReducerDefaultsOnEmpty(predictions) ==
  IF Len(predictions) > 0
    THEN LET normalEntryViz == FindLower(predictions, LitNormal)
             glaucomaEntryViz == FindLower(predictions, LitGlaucoma)
             branch == ReducerBranch(predictions)
             pick == CASE branch = 1 -> Val(glaucomaEntryViz)
                       [] branch = 2 -> Val(normalEntryViz)
                       [] branch = 3 -> Val(glaucomaEntryViz)
                       [] OTHER -> predictions[1]
         IN Viz(Some(pick.className), Some(pick.probability))
    ELSE Viz(Some(Normal), Some(0))

ReducerScoreOfTop(predictions) ==
  IF Len(predictions) > 0
    THEN LET normalEntryViz == FindLower(predictions, LitNormal)
             glaucomaEntryViz == FindLower(predictions, LitGlaucoma)
             branch == ReducerBranch(predictions)
         IN CASE branch = 1 -> Viz(Some(Val(glaucomaEntryViz).className), Some(predictions[1].probability))
              [] branch = 2 -> Viz(Some(Val(normalEntryViz).className), Some(predictions[1].probability))
              [] branch = 3 -> Viz(Some(Val(glaucomaEntryViz).className), Some(predictions[1].probability))
              [] OTHER -> Viz(Some(predictions[1].className), Some(predictions[1].probability))
    ELSE NoViz

\* vizClassName / vizScore as lines 110-133 leave them, on sorted output.
Reducer(predictions) ==
  IF Len(predictions) > 0
    THEN LET normalEntryViz == FindLower(predictions, LitNormal)
             glaucomaEntryViz == FindLower(predictions, LitGlaucoma)
             normalProbViz == ProbOrZero(normalEntryViz)
             glaucomaProbViz == ProbOrZero(glaucomaEntryViz)
             branch == ReducerBranch(predictions)
         IN CASE branch = 1 -> Viz(Some(Val(glaucomaEntryViz).className), Some(glaucomaProbViz))
              [] branch = 2 -> Viz(Some(Val(normalEntryViz).className), Some(normalProbViz))
              [] branch = 3 -> Viz(Some(Val(glaucomaEntryViz).className), Some(glaucomaProbViz))
              [] OTHER -> Viz(Some(predictions[1].className), Some(predictions[1].probability))
    ELSE NoViz

\* --------------------------------------------- interpretAlzheimerRiskFlow
RiskCategories == {"positive", "negative", "inconclusive"}

riskCategorySwapped(predictedClassName) ==
  LET normalizedPredictedClassName == toLowerCase(predictedClassName)
  IN IF normalizedPredictedClassName = LitNormal THEN "positive"
     ELSE IF normalizedPredictedClassName = LitGlaucoma THEN "negative"
     ELSE "inconclusive"

\* Lines 123-134: the category of a label.
riskCategory(predictedClassName) ==
  LET normalizedPredictedClassName == toLowerCase(predictedClassName)
  IN IF normalizedPredictedClassName = LitNormal THEN "negative"
     ELSE IF normalizedPredictedClassName = LitGlaucoma THEN "positive"
     ELSE "inconclusive"

\* ----------------------------------------------------------------- numbers
\* A JavaScript number is an IEEE 754 binary64 value, with a significand of
\* MantissaBits bits. A positive number is modelled as [bits, exp]: bits is
\* the significand, most significant bit first and 1, and the number is
\* bits * 2^exp. Zero has no bits.
MantissaBits == 53

Zero == [bits |-> <<>>, exp |-> 0]

RECURSIVE Pow2(_)
Pow2(n) == IF n = 0 THEN 1 ELSE 2 * Pow2(n - 1)

RECURSIVE BitsToInt(_)
BitsToInt(bits) ==
  IF bits = <<>> THEN 0
  ELSE 2 * BitsToInt(SubSeq(bits, 1, Len(bits) - 1)) + bits[Len(bits)]

RECURSIVE IntToBits(_)
IntToBits(n) == IF n = 0 THEN <<>> ELSE Append(IntToBits(n \div 2), n % 2)

RECURSIVE ZeroBits(_)
ZeroBits(n) == IF n = 0 THEN <<>> ELSE Append(ZeroBits(n - 1), 0)

\* bits + 1.
RECURSIVE Increment(_)
Increment(bits) ==
  IF bits = <<>> THEN <<1>>
  ELSE IF bits[Len(bits)] = 0 THEN [bits EXCEPT ![Len(bits)] = 1]
  ELSE Append(Increment(SubSeq(bits, 1, Len(bits) - 1)), 0)

\* The number nearest to bits * 2^exp (plus, if sticky, something positive
\* below the last bit), a tie going to the even significand: the rounding of
\* every arithmetic operation and of every decimal literal.
RoundToNearestEven(bits, sticky, exp) ==
  IF Len(bits) <= MantissaBits
    THEN [bits |-> bits \o ZeroBits(MantissaBits - Len(bits)),
          exp |-> exp - (MantissaBits - Len(bits))]
    ELSE LET keep == SubSeq(bits, 1, MantissaBits)
             rest == SubSeq(bits, MantissaBits + 1, Len(bits))
             below == sticky \/ \E i \in 2..Len(rest) : rest[i] = 1
             up == rest[1] = 1 /\ (below \/ keep[MantissaBits] = 1)
             m == IF up THEN Increment(keep) ELSE keep
         IN IF Len(m) > MantissaBits
              THEN [bits |-> SubSeq(m, 1, MantissaBits), exp |-> exp + Len(rest) + 1]
              ELSE [bits |-> m, exp |-> exp + Len(rest)]

\* acc followed by the first n bits of rem / den after the binary point
\* (0 <= rem < den), and the remainder left.
RECURSIVE DivBits(_, _, _, _)
DivBits(acc, rem, den, n) ==
  IF n = 0 THEN [bits |-> acc, rem |-> rem]
  ELSE IF 2 * rem >= den THEN DivBits(Append(acc, 1), 2 * rem - den, den, n - 1)
  ELSE DivBits(Append(acc, 0), 2 * rem, den, n - 1)

\* The least k with num * 2^k >= den, and the greatest k with
\* den * 2^k <= num.
RECURSIVE ScaleUp(_, _)
ScaleUp(num, den) == IF num >= den THEN 0 ELSE 1 + ScaleUp(2 * num, den)

RECURSIVE ScaleDown(_, _)
ScaleDown(num, den) == IF num < 2 * den THEN 0 ELSE 1 + ScaleDown(num, 2 * den)

\* The number that the fraction num / den is as a JavaScript number.
ToNumber(num, den) ==
  IF num = 0 THEN Zero
  ELSE LET up == ScaleUp(num, den)
           down == ScaleDown(num, den)
           n == num * Pow2(up)
           d == den * Pow2(down)
           q == DivBits(<<1>>, n - d, d, MantissaBits)
       IN RoundToNearestEven(q.bits, q.rem # 0, down - up - MantissaBits)

\* (the first i bits of bits) * c + carry, followed by acc: the long
\* multiplication by c from the last bit to the first.
RECURSIVE TimesBits(_, _, _, _, _)
TimesBits(bits, i, c, carry, acc) ==
  IF i = 0 THEN IntToBits(carry) \o acc
  ELSE IF (bits[i] * c + carry) % 2 = 1
    THEN TimesBits(bits, i - 1, c, (bits[i] * c + carry) \div 2, <<1>> \o acc)
    ELSE TimesBits(bits, i - 1, c, (bits[i] * c + carry) \div 2, <<0>> \o acc)

\* x * c for a number x and a positive integer c.
Times(x, c) ==
  IF x.bits = <<>> THEN Zero
  ELSE RoundToNearestEven(TimesBits(x.bits, Len(x.bits), c, 0, <<>>), FALSE, x.exp)

\* Math.round(x): floor(x + 1/2) of the number x, computed exactly.
MathRound(x) ==
  IF x.bits = <<>> THEN 0
  ELSE LET intLen == MantissaBits + x.exp
       IN IF intLen < 0 THEN 0
          ELSE IF intLen >= MantissaBits THEN BitsToInt(x.bits) * Pow2(x.exp)
          ELSE BitsToInt(SubSeq(x.bits, 1, intLen)) + x.bits[intLen + 1]

\* Math.round(riskPrediction * 100), line 139, for riskPrediction the
\* number num / den.
MathRoundTimes100(num, den) == MathRound(Times(ToNumber(num, den), 100))

\* Math.round(modelScore * 100) of RiskVisualizationDisplay.
percentage(num, den) == MathRound(Times(ToNumber(num, den), 100))

\* Math.round(riskPrediction * 100) for riskPrediction = k / MaxProb; the
\* percentages of the probabilities are computed once.
PercentOfProb == [k \in 0..MaxProb |-> MathRoundTimes100(k, MaxProb)]

MathRoundPercent(k) ==
  IF k \in DOMAIN PercentOfProb THEN PercentOfProb[k] ELSE MathRoundTimes100(k, MaxProb)

\* promptInputData, lines 136-141.
PromptInputData(input) ==
  [effectivePredictedClass |-> input.predictedClassName,
   effectivePredictedClassConfidence |-> input.riskPrediction,
   effectivePredictedClassConfidencePercent |-> MathRoundPercent(input.riskPrediction),
   riskCategory |-> riskCategory(input.predictedClassName)]

PromptNames == {"positiveInterpretPrompt", "negativeInterpretPrompt",
                "inconclusiveInterpretPrompt"}

PromptToCallAlwaysInconclusive(category) == "inconclusiveInterpretPrompt"

\* Lines 143-152: the prompt the flow calls for a category.
PromptToCall(category) ==
  IF category = "positive" THEN "positiveInterpretPrompt"
  ELSE IF category = "negative" THEN "negativeInterpretPrompt"
  ELSE "inconclusiveInterpretPrompt"

\* ------------------------------------------------------------------- state
VARIABLES
  \* React state of AlzEyePredictPage (lines 27-35)
  imageFile, imagePreview, predictionResult, aiInterpretation, isLoading,
  loadingMessage, error, model, rawOutputForViz,
  \* files whose FileReader has not yet fired onloadend
  readers,
  \* where the three asynchronous functions are suspended
  loadModelPc, predictPc, exportPc,
  \* imageElement.src of the running handlePredict
  imgSrc,
  \* the server flow: its position, its input, the prompts it has called
  flowPc, flowInput, promptCalls,
  \* history: whether a file was selected since the last handlePredict
  \* started; the value the failed collaborator of the last run threw, and
  \* which collaborator; the narrative requests of the last run; the
  \* narrative of an earlier run that was stored when the last handlePredict
  \* run started, kept while that run is suspended or has failed
  selectedSinceStart, thrown, narrativeRequests, earlierNarrative,
  \* the pure functions applied to drawn inputs
  pPc, pIn, pOut, pLabel, pCat, pScore, pPercent

reactVars == << imageFile, imagePreview, predictionResult, aiInterpretation,
                isLoading, loadingMessage, error, model, rawOutputForViz >>
asyncVars == << readers, loadModelPc, predictPc, exportPc, imgSrc,
                flowPc, flowInput, promptCalls >>
historyVars == << selectedSinceStart, thrown, narrativeRequests, earlierNarrative >>
pureVars == << pPc, pIn, pOut, pLabel, pCat, pScore, pPercent >>
vars == << reactVars, asyncVars, historyVars, pureVars >>

\* ---------------------------------------------------------------- messages
MsgLoadingModel == "Loading AI model..."
MsgAnalyzing == "Analyzing image..."
MsgInterpreting == "Interpreting results with AI..."
MsgGeneratingPdf == "Generating PDF..."
ErrModelLoad == "Failed to load the AI model. Please try refreshing the page."
ErrInputUnavailable == "Please upload an image and ensure the model is loaded."
ErrNoPrimaryClass == "Could not determine a primary class from model output for AI interpretation. Predictions array might be empty or contain unexpected classes."
ErrGenericAnalysis == "An error occurred during analysis. Please try again."
ErrExport == "Failed to export PDF. Please try again."

\* What a collaborator's rejected promise carries: an Error with a message,
\* or a value that is no Error.
ErrorObject(m) == [isError |-> TRUE, message |-> m]
NonError == [isError |-> FALSE, message |-> ""]
ClassifierThrows == {ErrorObject("classifier: predict failed"), NonError}
\* The prompt call fails, or returns no output and the flow's output schema
\* rejects it.
PromptThrows == {ErrorObject("text generation: request failed"),
                 ErrorObject("text generation: output does not match schema"),
                 NonError}

\* The files the user has at hand.
Files == {"scanA.png", "scanB.png"}

\* The classifier outputs the page receives.
PageOutputs == SeqsUpTo(PredictionClass(PageClassNames), PageMaxLen)

\* The narrative the text-generation service returns for a prompt call.
Narrative(prompt, data) == [prompt |-> prompt, data |-> data]

\* ------------------------------------------------------------------- Init
PageInit ==
  /\ imageFile = Null /\ imagePreview = Null
  /\ predictionResult = Null /\ aiInterpretation = Null
  /\ isLoading = FALSE
  /\ loadingMessage = MsgLoadingModel
  /\ error = Null /\ model = Null
  /\ rawOutputForViz = NoViz
  /\ readers = {}
  /\ loadModelPc = "awaitLoad" /\ predictPc = "idle" /\ exportPc = "idle"
  /\ imgSrc = Null
  /\ flowPc = "idle" /\ flowInput = Null /\ promptCalls = <<>>
  /\ selectedSinceStart = FALSE /\ thrown = Null /\ narrativeRequests = 0
  /\ earlierNarrative = Null

PureOff ==
  /\ pPc = "off" /\ pIn = <<>> /\ pOut = NoViz /\ pLabel = <<>> /\ pCat = ""
  /\ pScore = 0 /\ pPercent = [prompt |-> 0, ui |-> 0]

Init == PageInit /\ PureOff

\* ------------------------------------------------------------- the widgets
FileInputNeverDisabled == FALSE

\* <Input type="file" disabled={isLoading}>
FileInputDisabled == isLoading

\* <Button onClick={handlePredict} disabled={!imageFile || isLoading || !model}>
PredictButtonDisabled == IsNull(imageFile) \/ isLoading \/ IsNull(model)

\* The report card, which holds the export button and is what resultsRef
\* refers to, is rendered when (predictionResult || aiInterpretation).
ReportCardRendered == ~IsNull(predictionResult) \/ ~IsNull(aiInterpretation)

\* <Button onClick={handleExportPdf} disabled={isLoading}>
ExportButtonDisabled == isLoading

\* ------------------------------------------------------------- loadModel
LoadModelResolve ==
  /\ loadModelPc = "awaitLoad"
  /\ model' = Some("CustomMobileNet")
  /\ loadingMessage' = ""
  /\ loadModelPc' = "done"
  /\ UNCHANGED << imageFile, imagePreview, predictionResult, aiInterpretation,
                  isLoading, error, rawOutputForViz >>
  /\ UNCHANGED << readers, predictPc, exportPc, imgSrc, flowPc, flowInput, promptCalls >>
  /\ UNCHANGED historyVars
  /\ UNCHANGED pureVars

LoadModelReject ==
  /\ loadModelPc = "awaitLoad"
  /\ error' = Some(ErrModelLoad)
  /\ loadingMessage' = ""
  /\ loadModelPc' = "done"
  /\ UNCHANGED << imageFile, imagePreview, predictionResult, aiInterpretation,
                  isLoading, model, rawOutputForViz >>
  /\ UNCHANGED << readers, predictPc, exportPc, imgSrc, flowPc, flowInput, promptCalls >>
  /\ UNCHANGED historyVars
  /\ UNCHANGED pureVars

\* ------------------------------------------------------- handleImageChange
\* The user picks a file.
handleImageChange ==
  /\ ~FileInputDisabled
  /\ \E file \in Files :
       /\ imageFile' = Some(file)
       /\ readers' = readers \cup {file}
  /\ selectedSinceStart' = TRUE
  /\ predictionResult' = Null
  /\ aiInterpretation' = Null
  /\ error' = Null
  /\ rawOutputForViz' = NoViz
  /\ UNCHANGED << imagePreview, isLoading, loadingMessage, model >>
  /\ UNCHANGED << loadModelPc, predictPc, exportPc, imgSrc, flowPc, flowInput, promptCalls >>
  /\ earlierNarrative' = Null
  /\ UNCHANGED << thrown, narrativeRequests >>
  /\ UNCHANGED pureVars

\* reader.onloadend: reader.result is the file's data URL, or null when the
\* read failed.
FileReaderLoadEnd ==
  \E file \in readers, ok \in BOOLEAN :
    /\ readers' = readers \ {file}
    /\ imagePreview' = IF ok THEN Some(file) ELSE Null
    /\ UNCHANGED << imageFile, predictionResult, aiInterpretation, isLoading,
                    loadingMessage, error, model, rawOutputForViz >>
    /\ UNCHANGED << loadModelPc, predictPc, exportPc, imgSrc, flowPc, flowInput, promptCalls >>
    /\ UNCHANGED historyVars
    /\ UNCHANGED pureVars

\* ----------------------------------------------------------- handlePredict
CatchMessageAlwaysGeneric(err) == ErrGenericAnalysis

\* Lines 157-160: the message the catch block shows for a thrown value.
CatchMessage(err) == IF err.isError THEN err.message ELSE ErrGenericAnalysis

InterpretationInputAsPercent(vizClassName, vizScore) ==
  [riskPrediction |-> vizScore * 100, predictedClassName |-> vizClassName]

\* Lines 143-146.
InterpretationInput(vizClassName, vizScore) ==
  [riskPrediction |-> vizScore, predictedClassName |-> vizClassName]

ResetOnStartKeepsNarrative ==
  [error |-> Null, predictionResult |-> Null,
   aiInterpretation |-> aiInterpretation, rawOutputForViz |-> NoViz]

\* Lines 94-97: what handlePredict resets before its try block.
ResetOnStart ==
  [error |-> Null, predictionResult |-> Null,
   aiInterpretation |-> Null, rawOutputForViz |-> NoViz]

InputUnavailableImageOnly(file, loadedModel) == IsNull(file)

\* Line 83: if (!imageFile || !model).
InputUnavailable(file, loadedModel) == IsNull(file) \/ IsNull(loadedModel)

\* A call of handlePredict, up to its return at line 91 or its first await
\* (lines 82-103).
handlePredictCall ==
  /\ IF InputUnavailable(imageFile, model)
       THEN /\ error' = Some(ErrInputUnavailable)
            /\ UNCHANGED << isLoading, predictionResult, aiInterpretation,
                            rawOutputForViz, loadingMessage >>
            /\ UNCHANGED << predictPc, imgSrc, selectedSinceStart, thrown, narrativeRequests,
                            earlierNarrative >>
       ELSE /\ isLoading' = TRUE
            /\ error' = ResetOnStart.error
            /\ predictionResult' = ResetOnStart.predictionResult
            /\ aiInterpretation' = ResetOnStart.aiInterpretation
            /\ rawOutputForViz' = ResetOnStart.rawOutputForViz
            /\ loadingMessage' = MsgAnalyzing
            /\ imgSrc' = imagePreview
            /\ predictPc' = "awaitOnload"
            /\ selectedSinceStart' = FALSE
            /\ thrown' = Null
            /\ narrativeRequests' = 0
            /\ earlierNarrative' = aiInterpretation
  /\ UNCHANGED << imageFile, imagePreview, model >>
  /\ UNCHANGED << readers, loadModelPc, exportPc, flowPc, flowInput, promptCalls >>
  /\ UNCHANGED pureVars

\* The click on the predict button: the button's onClick is handlePredict,
\* and a disabled button takes no click.
handlePredict ==
  /\ ~PredictButtonDisabled
  /\ handlePredictCall

\* imageElement.onload fires: the promise of line 103 resolves and
\* model.predict is called (line 105).
ImageOnload ==
  /\ predictPc = "awaitOnload"
  /\ ~IsNull(imgSrc)
  /\ predictPc' = "awaitPredict"
  /\ UNCHANGED reactVars
  /\ UNCHANGED << readers, loadModelPc, exportPc, imgSrc, flowPc, flowInput, promptCalls >>
  /\ UNCHANGED historyVars
  /\ UNCHANGED pureVars

\* The image does not load (src is "null", or the file is no image): the
\* error event has no handler and the promise of line 103 never settles.
ImageOnerror ==
  /\ predictPc = "awaitOnload"
  /\ predictPc' = "hung"
  /\ UNCHANGED reactVars
  /\ UNCHANGED << readers, loadModelPc, exportPc, imgSrc, flowPc, flowInput, promptCalls >>
  /\ UNCHANGED historyVars
  /\ UNCHANGED pureVars

\* model.predict resolves: lines 105-147, or 105-139 and the catch and
\* finally blocks when no class could be determined.
PredictResolve ==
  /\ predictPc = "awaitPredict"
  /\ \E output \in PageOutputs :
    LET predictions == SortDesc(output)
        viz == Reducer(predictions)
    IN /\ TRUE
       /\ predictionResult' = Some(predictions)
       /\ rawOutputForViz' = viz
       /\ IF IsNull(viz.className) \/ IsNull(viz.score)
            THEN /\ thrown' = Some([who |-> "reducer", err |-> ErrorObject(ErrNoPrimaryClass)])
                 /\ error' = Some(CatchMessage(ErrorObject(ErrNoPrimaryClass)))
                 /\ isLoading' = FALSE
                 /\ loadingMessage' = ""
                 /\ predictPc' = "idle"
                 /\ UNCHANGED << flowPc, flowInput, narrativeRequests, earlierNarrative >>
            ELSE /\ loadingMessage' = MsgInterpreting
                 /\ flowInput' = Some(InterpretationInput(Val(viz.className), Val(viz.score)))
                 /\ flowPc' = "requested"
                 /\ narrativeRequests' = narrativeRequests + 1
                 /\ predictPc' = "awaitInterpret"
                 /\ UNCHANGED << thrown, error, isLoading, earlierNarrative >>
       /\ UNCHANGED << imageFile, imagePreview, aiInterpretation, model >>
       /\ UNCHANGED << readers, loadModelPc, exportPc, imgSrc, promptCalls >>
       /\ UNCHANGED selectedSinceStart
       /\ UNCHANGED pureVars

\* model.predict rejects: the catch and finally blocks (lines 155-170).
PredictReject ==
  /\ predictPc = "awaitPredict"
  /\ \E err \in ClassifierThrows :
    /\ TRUE
    /\ thrown' = Some([who |-> "classifier", err |-> err])
    /\ error' = Some(CatchMessage(err))
    /\ isLoading' = FALSE
    /\ loadingMessage' = ""
    /\ predictPc' = "idle"
    /\ UNCHANGED << imageFile, imagePreview, predictionResult, aiInterpretation,
                    model, rawOutputForViz >>
    /\ UNCHANGED << readers, loadModelPc, exportPc, imgSrc, flowPc, flowInput, promptCalls >>
    /\ UNCHANGED << selectedSinceStart, narrativeRequests, earlierNarrative >>
    /\ UNCHANGED pureVars

\* The server runs interpretAlzheimerRiskFlow on the request up to the await
\* of the prompt call (lines 122-151).
FlowInvoke ==
  /\ flowPc = "requested"
  /\ promptCalls' = <<PromptToCall(riskCategory(Val(flowInput).predictedClassName))>>
  /\ flowPc' = "awaitPrompt"
  /\ UNCHANGED reactVars
  /\ UNCHANGED << readers, loadModelPc, predictPc, exportPc, imgSrc, flowInput >>
  /\ UNCHANGED historyVars
  /\ UNCHANGED pureVars

\* The prompt call returns an output: the flow returns it and handlePredict
\* resumes at line 148, then the finally block.
PromptResolve ==
  /\ flowPc = "awaitPrompt"
  /\ predictPc = "awaitInterpret"
  /\ aiInterpretation' = Some(Narrative(promptCalls[Len(promptCalls)],
                                        PromptInputData(Val(flowInput))))
  /\ isLoading' = FALSE
  /\ loadingMessage' = ""
  /\ flowPc' = "idle"
  /\ predictPc' = "idle"
  /\ earlierNarrative' = Null
  /\ UNCHANGED << imageFile, imagePreview, predictionResult, error, model, rawOutputForViz >>
  /\ UNCHANGED << readers, loadModelPc, exportPc, imgSrc, flowInput, promptCalls >>
  /\ UNCHANGED << selectedSinceStart, thrown, narrativeRequests >>
  /\ UNCHANGED pureVars

\* The prompt call fails: the flow throws, interpretAlzheimerRisk rejects
\* and handlePredict runs its catch and finally blocks.
PromptReject ==
  /\ flowPc = "awaitPrompt"
  /\ predictPc = "awaitInterpret"
  /\ \E err \in PromptThrows :
    /\ TRUE
    /\ thrown' = Some([who |-> "narrative", err |-> err])
    /\ error' = Some(CatchMessage(err))
    /\ isLoading' = FALSE
    /\ loadingMessage' = ""
    /\ flowPc' = "idle"
    /\ predictPc' = "idle"
    /\ UNCHANGED << imageFile, imagePreview, predictionResult, aiInterpretation,
                    model, rawOutputForViz >>
    /\ UNCHANGED << readers, loadModelPc, exportPc, imgSrc, flowInput, promptCalls >>
    /\ UNCHANGED << selectedSinceStart, narrativeRequests, earlierNarrative >>
    /\ UNCHANGED pureVars

\* --------------------------------------------------------- handleExportPdf
\* The click on the export button, up to the await of html2canvas.
handleExportPdf ==
  /\ ReportCardRendered
  /\ ~ExportButtonDisabled
  /\ isLoading' = TRUE
  /\ loadingMessage' = MsgGeneratingPdf
  /\ exportPc' = "awaitCanvas"
  /\ UNCHANGED << imageFile, imagePreview, predictionResult, aiInterpretation,
                  error, model, rawOutputForViz >>
  /\ UNCHANGED << readers, loadModelPc, predictPc, imgSrc, flowPc, flowInput, promptCalls >>
  /\ UNCHANGED historyVars
  /\ UNCHANGED pureVars

\* html2canvas resolves and the PDF is written and saved (lines 200-226).
ExportResolve ==
  /\ exportPc = "awaitCanvas"
  /\ isLoading' = FALSE
  /\ loadingMessage' = ""
  /\ exportPc' = "idle"
  /\ UNCHANGED << imageFile, imagePreview, predictionResult, aiInterpretation,
                  error, model, rawOutputForViz >>
  /\ UNCHANGED << readers, loadModelPc, predictPc, imgSrc, flowPc, flowInput, promptCalls >>
  /\ UNCHANGED historyVars
  /\ UNCHANGED pureVars

ExportRejectInvalidates ==
  /\ exportPc = "awaitCanvas"
  /\ error' = Some(ErrExport)
  /\ aiInterpretation' = Null
  /\ isLoading' = FALSE
  /\ loadingMessage' = ""
  /\ exportPc' = "idle"
  /\ UNCHANGED << imageFile, imagePreview, predictionResult, model, rawOutputForViz >>
  /\ UNCHANGED << readers, loadModelPc, predictPc, imgSrc, flowPc, flowInput, promptCalls >>
  /\ UNCHANGED historyVars
  /\ UNCHANGED pureVars

\* html2canvas rejects, or jsPDF throws (lines 227-238).
ExportReject ==
  /\ exportPc = "awaitCanvas"
  /\ error' = Some(ErrExport)
  /\ isLoading' = FALSE
  /\ loadingMessage' = ""
  /\ exportPc' = "idle"
  /\ UNCHANGED << imageFile, imagePreview, predictionResult, aiInterpretation,
                  model, rawOutputForViz >>
  /\ UNCHANGED << readers, loadModelPc, predictPc, imgSrc, flowPc, flowInput, promptCalls >>
  /\ UNCHANGED historyVars
  /\ UNCHANGED pureVars

\* ------------------------------------------------------------------- Spec
\* The steps that resume a suspended handlePredict or handleExportPdf.
Resume ==
  \/ ImageOnload
  \/ PredictResolve
  \/ PredictReject
  \/ FlowInvoke
  \/ PromptResolve
  \/ PromptReject
  \/ ExportResolve
  \/ ExportReject

Next ==
  \/ LoadModelResolve
  \/ LoadModelReject
  \/ handleImageChange
  \/ FileReaderLoadEnd
  \/ handlePredict
  \/ ImageOnerror
  \/ handleExportPdf
  \/ Resume

Spec == Init /\ [][Next]_vars

\* ------------------------------------------- handlePredict called directly
\* The page up to the start of a run, with handlePredict called as a
\* function in whatever state the page is in, which the button by itself
\* does not allow.
HandlerNext ==
  \/ LoadModelResolve
  \/ LoadModelReject
  \/ handleImageChange
  \/ FileReaderLoadEnd
  \/ handlePredictCall

HandlerSpec == Init /\ [][HandlerNext]_vars

\* ------------------------------------------- the pure functions on inputs
\* The upper-case form of a lower-case letter.
UpperOfLower(c) == UpperChars[CHOOSE i \in 1..Len(LowerChars) : LowerChars[i] = c]

\* Every way of writing the lower-case word w in mixed case.
CaseVariants(w) ==
  {[i \in 1..Len(w) |-> IF up[i] THEN UpperOfLower(w[i]) ELSE w[i]] :
     up \in [1..Len(w) -> BOOLEAN]}

\* Labels that are neither word: other classes, the empty string, and near
\* misses of the two words.
OtherLabels ==
  {Cataract, Drusen, <<>>,
   << "n","o","r","m","a","l"," " >>,
   << " ","N","o","r","m","a","l" >>,
   << "n","o","r","m","a" >>,
   << "g","l","a","u","c","o","m" >>,
   << "G","l","a","u","c","o","m","a","1" >>,
   << "n","o","r","m","a","l","g","l","a","u","c","o","m","a" >>}

LabelInputs == CaseVariants(LitGlaucoma) \cup CaseVariants(LitNormal) \cup OtherLabels

RECURSIVE Pow10(_)
Pow10(n) == IF n = 0 THEN 1 ELSE 10 * Pow10(n - 1)

\* A drawn score is pScore / ScoreUnits: a decimal of ScoreDecimals places
\* in [0,1].
ScoreUnits == Pow10(ScoreDecimals)

\* Each behaviour draws one input: a classifier output for the reducer, a
\* label for the category derivation, or a score for the percentage.
PureInit ==
  /\ PageInit
  /\ pOut = NoViz /\ pCat = "" /\ pPercent = [prompt |-> 0, ui |-> 0]
  /\ \/ /\ pPc = "reduce" /\ pIn \in SeqsUpTo(PredictionClass(ClassNames), MaxLen)
        /\ pLabel = <<>> /\ pScore = 0
     \/ pPc = "categorize" /\ pLabel \in LabelInputs /\ pIn = <<>> /\ pScore = 0
     \/ pPc = "percent" /\ pScore \in 0..ScoreUnits /\ pIn = <<>> /\ pLabel = <<>>

\* Lines 106-133 on the drawn output.
ApplyReducer ==
  /\ pPc = "reduce"
  /\ pOut' = Reducer(SortDesc(pIn))
  /\ pPc' = "reduced"
  /\ UNCHANGED << pIn, pLabel, pCat, pScore, pPercent >>
  /\ UNCHANGED << reactVars, asyncVars, historyVars >>

\* Lines 123-134 on the drawn label.
ApplyCategory ==
  /\ pPc = "categorize"
  /\ pCat' = riskCategory(pLabel)
  /\ pPc' = "categorized"
  /\ UNCHANGED << pIn, pLabel, pOut, pScore, pPercent >>
  /\ UNCHANGED << reactVars, asyncVars, historyVars >>

\* Line 139 of the flow and line 246 of the page on the drawn score.
ApplyPercent ==
  /\ pPc = "percent"
  /\ pPercent' = [prompt |-> MathRoundTimes100(pScore, ScoreUnits),
                  ui |-> percentage(pScore, ScoreUnits)]
  /\ pPc' = "percented"
  /\ UNCHANGED << pIn, pLabel, pOut, pCat, pScore >>
  /\ UNCHANGED << reactVars, asyncVars, historyVars >>

PureNext == ApplyReducer \/ ApplyCategory \/ ApplyPercent

PureSpec == PureInit /\ [][PureNext]_vars

\* -------------------------------------------------- vocabulary of the claims
\* label is the lower-case word w written in some casing.
EqIgnoreCase(label, w) ==
  /\ Len(label) = Len(w)
  /\ \A i \in 1..Len(w) : label[i] = w[i] \/ label[i] = UpperOfLower(w[i])

GlaucomaAt(ps) == {i \in 1..Len(ps) : EqIgnoreCase(ps[i].className, LitGlaucoma)}
NormalAt(ps) == {i \in 1..Len(ps) : EqIgnoreCase(ps[i].className, LitNormal)}

\* Among the places I of ps, the one of highest probability, the first of
\* them in the order of ps.
BestAt(ps, I) ==
  CHOOSE i \in I : \A j \in I :
    \/ ps[i].probability > ps[j].probability
    \/ ps[i].probability = ps[j].probability /\ i <= j

Selected(pair) == Viz(Some(pair.className), Some(pair.probability))

\* ------------------------------------------------------------------ claims
\* C1: when the classifier output holds a glaucoma pair (in any casing) whose
\* probability is strictly above that of every normal pair, or a glaucoma pair
\* and no normal pair at all, the reducer selects the glaucoma pair: its label
\* as written and its probability (of several glaucoma pairs, the most
\* probable, the first of these in the output).
C1_GlaucomaSelected ==
  (/\ pPc = "reduced"
   /\ \E g \in GlaucomaAt(pIn) : \A n \in NormalAt(pIn) :
        pIn[g].probability > pIn[n].probability)
  => pOut = Selected(pIn[BestAt(pIn, GlaucomaAt(pIn))])

\* A glaucoma pair of probability 0, no normal pair, and another label of
\* higher probability: the glaucoma pair is selected with score 0.
C1_Witness ==
  /\ pPc = "reduced"
  /\ GlaucomaAt(pIn) # {} /\ NormalAt(pIn) = {}
  /\ \A g \in GlaucomaAt(pIn) : pIn[g].probability = 0
  /\ \E o \in 1..Len(pIn) : pIn[o].probability > 0
  /\ pOut = Viz(Some(Glaucoma), Some(0))

\* C2: when the output holds both a normal and a glaucoma pair and the normal
\* probability is at least the glaucoma probability, the reducer selects the
\* normal pair, label as written and its probability; a tie goes to normal.
C2_NormalSelected ==
  (/\ pPc = "reduced"
   /\ GlaucomaAt(pIn) # {}
   /\ \E n \in NormalAt(pIn) : \A g \in GlaucomaAt(pIn) :
        pIn[n].probability >= pIn[g].probability)
  => pOut = Selected(pIn[BestAt(pIn, NormalAt(pIn))])

\* An exact tie between glaucoma and normal, glaucoma first in the output.
C2_Witness ==
  /\ pPc = "reduced"
  /\ Len(pIn) = 2
  /\ pIn[1].className = Glaucoma /\ pIn[2].className = NORMAL
  /\ pIn[1].probability = pIn[2].probability
  /\ pOut = Viz(Some(NORMAL), Some(pIn[2].probability))

\* C3: when the output is not empty and holds neither a normal nor a glaucoma
\* pair, the reducer selects the pair of highest probability, and of several
\* such pairs the first in the classifier's order.
C3_FallbackFirstMax ==
  (/\ pPc = "reduced"
   /\ Len(pIn) > 0
   /\ GlaucomaAt(pIn) = {} /\ NormalAt(pIn) = {})
  => pOut = Selected(pIn[BestAt(pIn, 1..Len(pIn))])

\* Two different labels tie for the highest probability behind a less
\* probable first pair; the first of the two is selected.
C3_Witness ==
  /\ pPc = "reduced"
  /\ Len(pIn) = 3
  /\ pIn[1].className = Drusen /\ pIn[2].className = Drusen /\ pIn[3].className = Cataract
  /\ pIn[1].probability < pIn[2].probability
  /\ pIn[2].probability = pIn[3].probability
  /\ pOut = Viz(Some(Drusen), Some(pIn[2].probability))

\* C4: the category of a label is positive when the label is "glaucoma" in
\* any casing, negative when it is "normal" in any casing, and inconclusive
\* for every other string; it is always one of the three.
C4_CategoryTotal ==
  pPc = "categorized" =>
    /\ pCat \in RiskCategories
    /\ EqIgnoreCase(pLabel, LitGlaucoma) => pCat = "positive"
    /\ EqIgnoreCase(pLabel, LitNormal) => pCat = "negative"
    /\ (~EqIgnoreCase(pLabel, LitGlaucoma) /\ ~EqIgnoreCase(pLabel, LitNormal))
         => pCat = "inconclusive"

\* A label in mixed case, "gLAUCOMa", is categorized positive.
C4_Witness ==
  /\ pPc = "categorized"
  /\ pLabel = << "g","L","A","U","C","O","M","a" >>
  /\ pCat = "positive"

\* The prompt bound to the category of a label, stated on the label's casing.
PromptBoundTo(label) ==
  IF EqIgnoreCase(label, LitGlaucoma) THEN "positiveInterpretPrompt"
  ELSE IF EqIgnoreCase(label, LitNormal) THEN "negativeInterpretPrompt"
  ELSE "inconclusiveInterpretPrompt"

\* The narrative request of the running or last handlePredict has been
\* taken up by the flow.
FlowInvoked == narrativeRequests = 1 /\ flowPc # "requested"

\* C5: an invocation of the flow calls exactly one prompt, the one bound to
\* the category of the input label, while the call is pending and after it
\* has succeeded or failed.
C5_ExactlyOnePrompt ==
  FlowInvoked => promptCalls = << PromptBoundTo(Val(flowInput).predictedClassName) >>

\* The positive prompt was called for "Glaucoma", the call failed, and it is
\* the only call of the invocation.
C5_Witness ==
  /\ FlowInvoked /\ flowPc = "idle"
  /\ ~IsNull(thrown) /\ Val(thrown).who = "narrative"
  /\ Val(flowInput).predictedClassName = Glaucoma
  /\ promptCalls = << "positiveInterpretPrompt" >>

\* C6: while a narrative request is out, the classifier call of the run has
\* returned (handlePredict waits for the narrative, not for the classifier),
\* its output is stored, and the request carries exactly the stored effective
\* label and score, which are those of a pair of that output.
C6_NarrativeAfterReduction ==
  flowPc # "idle" =>
    /\ predictPc = "awaitInterpret"
    /\ ~IsNull(predictionResult)
    /\ ~IsNull(rawOutputForViz.className) /\ ~IsNull(rawOutputForViz.score)
    /\ Val(flowInput).predictedClassName = Val(rawOutputForViz.className)
    /\ Val(flowInput).riskPrediction = Val(rawOutputForViz.score)
    /\ \E i \in 1..Len(Val(predictionResult)) :
         /\ Val(predictionResult)[i].className = Val(flowInput).predictedClassName
         /\ Val(predictionResult)[i].probability = Val(flowInput).riskPrediction

\* A request for "Glaucoma" with the highest score is out.
C6_Witness ==
  /\ flowPc = "requested"
  /\ flowInput = Some([riskPrediction |-> MaxProb, predictedClassName |-> Glaucoma])
  /\ Val(predictionResult) = << [className |-> Glaucoma, probability |-> MaxProb] >>

\* A step stores a result of a handlePredict run.
WritesResult ==
  \/ predictionResult' # predictionResult /\ ~IsNull(predictionResult')
  \/ rawOutputForViz' # rawOutputForViz /\ rawOutputForViz' # NoViz
  \/ aiInterpretation' # aiInterpretation /\ ~IsNull(aiInterpretation')

\* C7: no result of a handlePredict run is stored after a file was selected
\* later than the run started; the file input stays disabled for as long as
\* a run is suspended.
C7_LastSubmissionWins ==
  /\ [](predictPc # "idle" => FileInputDisabled)
  /\ [][WritesResult => ~selectedSinceStart]_vars

\* A run on scanB.png has stored its output and its narrative, and no file
\* was selected since it started.
C7_Witness ==
  /\ predictPc = "idle" /\ ~selectedSinceStart
  /\ imageFile = Some("scanB.png") /\ imgSrc = Some("scanB.png")
  /\ ~IsNull(aiInterpretation) /\ ~IsNull(predictionResult)

\* C8: a started operation is never stuck: while isLoading is true, some
\* step that resumes the suspended handler can be taken.
C8_NeverStuckLoading == isLoading => ENABLED Resume

\* A narrative request of the run was rejected in this step.
NarrativeFails ==
  /\ flowPc = "awaitPrompt" /\ flowPc' = "idle"
  /\ ~IsNull(thrown') /\ Val(thrown').who = "narrative"

\* C9, as claimed: when the narrative collaborator fails, the error shown is
\* the generic analysis message.
C9_GenericMessage ==
  [][NarrativeFails => error' = Some(ErrGenericAnalysis)]_vars

\* C9, amended: when the narrative collaborator fails, the error shown is the
\* message of the thrown Error, and the generic analysis message only when
\* the thrown value is no Error; the run made one narrative request and one
\* prompt call, and aiInterpretation is empty until the next handlePredict.
C9_ThrownMessage ==
  /\ [][NarrativeFails =>
          /\ Val(thrown').err.isError => error' = Some(Val(thrown').err.message)
          /\ ~Val(thrown').err.isError => error' = Some(ErrGenericAnalysis)
          /\ ~isLoading' /\ predictPc' = "idle"]_vars
  /\ []((~IsNull(thrown) /\ Val(thrown).who = "narrative") =>
          /\ IsNull(aiInterpretation)
          /\ narrativeRequests = 1 /\ Len(promptCalls) = 1
          /\ flowPc = "idle")

\* The narrative collaborator threw an Error and its message is shown.
C9_Witness ==
  /\ ~IsNull(thrown) /\ Val(thrown).who = "narrative" /\ Val(thrown).err.isError
  /\ error = Some("text generation: request failed")
  /\ IsNull(aiInterpretation) /\ ~isLoading

\* The classifier's predict call was rejected in this step.
ClassifierFails ==
  /\ predictPc = "awaitPredict" /\ predictPc' = "idle"
  /\ ~IsNull(thrown') /\ Val(thrown').who = "classifier"

C11_PredictionBlocked ==
  /\ [][(handlePredictCall /\ (IsNull(imageFile) \/ IsNull(model))) =>
          /\ error' = Some(ErrInputUnavailable)
          /\ ~isLoading' /\ predictPc' = "idle" /\ flowPc' = "idle"
          /\ narrativeRequests' = 0
          /\ UNCHANGED << predictionResult, rawOutputForViz, aiInterpretation,
                          imgSrc, loadingMessage >>]_vars
  /\ [][(loadModelPc = "awaitLoad" /\ loadModelPc' = "done" /\ IsNull(model')) =>
          /\ error' = Some(ErrModelLoad)
          /\ error' # Some(ErrInputUnavailable)]_vars
  /\ [][loadModelPc = "done" => model' = model]_vars
  /\ []((IsNull(imageFile) \/ IsNull(model)) =>
          /\ ~isLoading /\ predictPc = "idle"
          /\ IsNull(predictionResult) /\ IsNull(aiInterpretation))

\* The model load has failed, a file is selected, and handlePredict was
\* called: the input-unavailable error is shown and nothing is loading.
C11_Witness ==
  /\ loadModelPc = "done" /\ IsNull(model) /\ ~IsNull(imageFile)
  /\ error = Some(ErrInputUnavailable)
  /\ ~isLoading /\ predictPc = "idle"

\* C12: from the click on the export button to the end of the export,
\* failed or not, predictionResult, rawOutputForViz and aiInterpretation are
\* not changed by any step; the step in which the export fails sets the
\* export error and ends the loading state.
C12_ExportFailureKeepsResults ==
  /\ [][(exportPc = "awaitCanvas" \/ exportPc' = "awaitCanvas") =>
          UNCHANGED << predictionResult, rawOutputForViz, aiInterpretation >>]_vars
  /\ [][ExportReject => error' = Some(ErrExport) /\ ~isLoading']_vars

\* An export has failed on a report that holds a breakdown, an effective
\* result and a narrative.
C12_Witness ==
  /\ exportPc = "idle" /\ error = Some(ErrExport) /\ ~isLoading
  /\ ~IsNull(predictionResult) /\ rawOutputForViz # NoViz
  /\ ~IsNull(aiInterpretation)

\* The last handlePredict run has failed at narrative generation and is over.
NarrativeFailed ==
  /\ predictPc = "idle" /\ ~IsNull(thrown) /\ Val(thrown).who = "narrative"

\* C13, as claimed: after a run that failed at narrative generation,
\* aiInterpretation still holds the narrative an earlier run had stored.
C13_EarlierNarrativeKept ==
  (NarrativeFailed /\ ~IsNull(earlierNarrative)) => aiInterpretation = earlierNarrative

\* C13, amended: a run that fails at narrative generation ends with an
\* error shown and aiInterpretation empty, the narrative of an earlier run
\* having been cleared when the failing run started; aiInterpretation is
\* empty for as long as a run is suspended, and a stored narrative is always
\* the whole narrative returned for the last request, never a mix with an
\* earlier one.
C13_NarrativeClearedNotCorrupted ==
  /\ [][NarrativeFails =>
          ~IsNull(error') /\ IsNull(aiInterpretation') /\ ~isLoading']_vars
  /\ [](predictPc # "idle" => IsNull(aiInterpretation))
  /\ [](~IsNull(aiInterpretation) =>
          aiInterpretation = Some(Narrative(promptCalls[Len(promptCalls)],
                                            PromptInputData(Val(flowInput)))))

\* A run stored a narrative; the next run, started with that narrative on
\* the page, failed at narrative generation.
C13_Witness ==
  /\ NarrativeFailed /\ ~IsNull(earlierNarrative)
  /\ IsNull(aiInterpretation) /\ ~IsNull(error) /\ ~IsNull(predictionResult)

\* C14: for every score of ScoreDecimals decimal places in [0,1], the
\* percentage given to the prompt is the score times 100 rounded half-up (a
\* fraction of exactly one half upward, anything below it downward), it lies
\* in 0..100, and the page's visualization computes the same percentage.
C14_RoundHalfUp ==
  pPc = "percented" =>
    /\ pPercent.prompt = (200 * pScore + ScoreUnits) \div (2 * ScoreUnits)
    /\ pPercent.prompt \in 0..100
    /\ pPercent.ui = pPercent.prompt

\* C15: whenever the reducer has stored an effective result, the classifier
\* output holds a pair whose label is the stored label, letter for letter,
\* and whose probability is the stored score; in every branch, and also when
\* several pairs carry the same word in different casings.
C15_ScoreOfSelectedPair ==
  (pPc = "reduced" /\ pOut # NoViz) =>
    \E i \in 1..Len(pIn) :
      /\ pIn[i].className = Val(pOut.className)
      /\ pIn[i].probability = Val(pOut.score)

\* Two glaucoma pairs that differ in casing and in probability, and a more
\* probable pair of another label: the stored label and score are those of
\* the more probable glaucoma pair.
C15_Witness ==
  /\ pPc = "reduced"
  /\ \E i, j, k \in 1..Len(pIn) :
       /\ pIn[i].className = Glaucoma /\ pIn[j].className = glaucomaLc
       /\ pIn[k].className = Cataract
       /\ pIn[i].probability < pIn[j].probability
       /\ pIn[j].probability < pIn[k].probability
       /\ pOut = Selected(pIn[j])

\* C16, as claimed: the third branch of the reducer's if-chain is never
\* taken on a non-empty classifier output.
C16_ThirdBranchUnreachable ==
  (pPc = "reduced" /\ pIn # <<>>) => ReducerBranch(SortDesc(pIn)) # 3

\* C16, amended: on a non-empty classifier output the third branch is taken
\* exactly when a glaucoma pair exists, no normal pair exists and every
\* glaucoma pair has probability 0; with only glaucoma present at a positive
\* probability the first branch is taken; either way the glaucoma pair is
\* selected.
C16_ThirdBranchOnZeroGlaucoma ==
  (pPc = "reduced" /\ pIn # <<>>) =>
    LET onlyGlaucoma == GlaucomaAt(pIn) # {} /\ NormalAt(pIn) = {}
        allZero == \A g \in GlaucomaAt(pIn) : pIn[g].probability = 0
    IN /\ ReducerBranch(SortDesc(pIn)) = 3 <=> (onlyGlaucoma /\ allZero)
       /\ (onlyGlaucoma /\ ~allZero) => ReducerBranch(SortDesc(pIn)) = 1
       /\ onlyGlaucoma => pOut = Selected(pIn[BestAt(pIn, GlaucomaAt(pIn))])

\* Two pairs, a glaucoma pair of probability 0 and no normal pair: the third
\* branch is taken and glaucoma is selected with score 0.
C16_Witness ==
  /\ pPc = "reduced" /\ Len(pIn) = 2
  /\ GlaucomaAt(pIn) # {} /\ NormalAt(pIn) = {}
  /\ ReducerBranch(SortDesc(pIn)) = 3
  /\ pOut.score = Some(0) /\ EqIgnoreCase(Val(pOut.className), LitGlaucoma)

\* C17: when the classifier output holds a normal pair and no glaucoma pair,
\* the reducer selects the normal pair with its own probability (of several,
\* the most probable, the first of these in the output), whatever the other
\* labels' probabilities; the fallback to the top pair is taken only when
\* neither a normal nor a glaucoma pair is present.
C17_NormalWithoutGlaucoma ==
  (pPc = "reduced" /\ pIn # <<>>) =>
    /\ (NormalAt(pIn) # {} /\ GlaucomaAt(pIn) = {}) =>
         pOut = Selected(pIn[BestAt(pIn, NormalAt(pIn))])
    /\ ReducerBranch(SortDesc(pIn)) = 4 =>
         (NormalAt(pIn) = {} /\ GlaucomaAt(pIn) = {})

\* A normal pair, no glaucoma pair, and a pair of another label of higher
\* probability: the normal pair is selected.
C17_Witness ==
  /\ pPc = "reduced"
  /\ NormalAt(pIn) # {} /\ GlaucomaAt(pIn) = {}
  /\ \E i, k \in 1..Len(pIn) :
       /\ pIn[i].className = NORMAL /\ pIn[k].className = Drusen
       /\ pIn[i].probability < pIn[k].probability
       /\ pOut = Selected(pIn[i])

\* C18: when the classifier returns an empty output, the step that receives
\* it ends the run with the no-primary-class error shown and isLoading false,
\* and for as long as the empty output is the stored breakdown no effective
\* result and no narrative is stored and no narrative request or prompt call
\* has been made by the run.
C18_EmptyOutput ==
  /\ [][(predictionResult' = Some(<<>>) /\ predictionResult # predictionResult') =>
          /\ error' = Some(ErrNoPrimaryClass)
          /\ ~isLoading' /\ predictPc' = "idle"]_vars
  /\ [](predictionResult = Some(<<>>) =>
          /\ rawOutputForViz = NoViz /\ IsNull(aiInterpretation)
          /\ narrativeRequests = 0
          /\ predictPc = "idle" /\ flowPc = "idle")

\* A run has received an empty classifier output and is over.
C18_Witness ==
  /\ predictionResult = Some(<<>>) /\ error = Some(ErrNoPrimaryClass)
  /\ ~IsNull(thrown) /\ Val(thrown).who = "reducer"
  /\ ~isLoading /\ predictPc = "idle" /\ rawOutputForViz = NoViz

\* C19: whenever the classifier is running, the image it was given is the
\* preview of the selected file.
C19_ClassifiesSelectedFile ==
  predictPc = "awaitPredict" => imgSrc = imageFile

\* C20: whenever a narrative is stored, a non-empty classification breakdown
\* and an effective result are stored with it, and the three belong to one
\* run: the effective result is the reducer's result on the stored breakdown
\* and the narrative was generated for that label and score.
C20_NarrativeImpliesResult ==
  ~IsNull(aiInterpretation) =>
    /\ ~IsNull(predictionResult) /\ Val(predictionResult) # <<>>
    /\ rawOutputForViz # NoViz
    /\ rawOutputForViz = Reducer(Val(predictionResult))
    /\ Val(aiInterpretation).data.effectivePredictedClass = Val(rawOutputForViz.className)
    /\ Val(aiInterpretation).data.effectivePredictedClassConfidence = Val(rawOutputForViz.score)

\* A narrative is stored and an export of the report is under way, after
\* the page has seen two selections.
C20_Witness ==
  /\ ~IsNull(aiInterpretation) /\ ~IsNull(predictionResult)
  /\ rawOutputForViz # NoViz
  /\ exportPc = "awaitCanvas" /\ isLoading
  /\ imageFile = Some("scanB.png") /\ imagePreview = Some("scanA.png")

\* ps with the pairs at places i and i + 1 exchanged. Every permutation is a
\* chain of such exchanges, and every link of the chain is a drawn output.
Exchanged(ps, i) == [ps EXCEPT ![i] = ps[i + 1], ![i + 1] = ps[i]]

\* Two of the places I of ps hold the same probability.
TieAt(ps, I) == \E a, b \in I : a # b /\ ps[a].probability = ps[b].probability

\* The places the reducer selects among on ps: the glaucoma pairs, the normal
\* pairs, or all pairs.
CandidatesAt(ps) ==
  LET branch == ReducerBranch(SortDesc(ps))
  IN IF branch \in {1, 3} THEN GlaucomaAt(ps)
     ELSE IF branch = 2 THEN NormalAt(ps)
     ELSE 1..Len(ps)

\* C21: the effective score does not depend on the order in which the
\* classifier lists its pairs: exchanging two neighbouring pairs of a
\* non-empty output leaves the score as it is, also with repeated and
\* case-variant labels, and leaves the label as it is unless two of the pairs
\* selected among have the same probability.
C21_OrderIndependent ==
  (pPc = "reduced" /\ pIn # <<>>) =>
    \A i \in 1..(Len(pIn) - 1) :
      LET other == Reducer(SortDesc(Exchanged(pIn, i)))
      IN /\ other.score = pOut.score
         /\ other.className = pOut.className \/ TieAt(pIn, CandidatesAt(pIn))

\* The output lists the glaucoma label twice, the less probable pair first,
\* and a normal pair between them in probability: only after the sort does
\* the reducer find the more probable glaucoma pair.
C21_Witness ==
  /\ pPc = "reduced" /\ Len(pIn) = 3
  /\ pIn[1].className = Glaucoma /\ pIn[2].className = Glaucoma
  /\ pIn[3].className = Normal
  /\ pIn[1].probability < pIn[3].probability
  /\ pIn[3].probability < pIn[2].probability
  /\ pOut = Selected(pIn[2])

====
